---- MODULE Spec2Model ----
(***************************************************************************)
(* Sentinel: a stock-news watcher.  One sqlite table `watchlist` is shared *)
(* by a background poller (scraper_loop) and by the tools an LLM agent     *)
(* calls while it answers an inbound WhatsApp message (reply_whatsapp).    *)
(* The tools are plain `def`s, so the agent runs each in a worker thread:  *)
(* their statements interleave with each other and with the poller.        *)
(***************************************************************************)
EXTENDS Integers, Sequences, FiniteSets, TLC

----------------------------------------------------------------------------
(* Bounds of the model *)

\* rowids the table may hand out (an INSERT that would exceed it is not taken)
MaxRowId == 3
\* rows a persisted stocks.db may already hold when the process starts
MaxInitRows == 2
\* tool calls the agent starts in all, over every message it answers
MaxCalls == 2

----------------------------------------------------------------------------
(* Values *)

\* A phone number is the text of Twilio's From field or whatever the agent
\* passes as phone_number: it either carries the "whatsapp:" prefix or not.
Phones == { [wa |-> TRUE, num |-> "n1"], [wa |-> FALSE, num |-> "n2"] }

\* Ticker text as typed, a sequence of characters; " " is whitespace.
RawStocks == { <<"A">>, <<" ", "a">>, <<"b", " ">>, <<"B">> }

\* The value add_stock_to_watchlist stores in last_seen_link for a new row.
NoLink == "none"
\* <link> texts the feed serves (URLs: none of them is the text "none")
Links == {"l1", "l2"}
Cursors == Links \cup {NoLink}

\* What the LLM answers for a headline, and the except branch's constant.
Labels == {"bullish"}
FallbackLabel == "neutral-unavailable"

\* reply_whatsapp's except branch's constant, and the agent's own last message
Fallback == "sorry"
AiTexts == {"chat", "relay"}
NoText == "no-text"

\* Handlers of POST /bot that may be in flight together
Reqs == {"r1", "r2"}

----------------------------------------------------------------------------
(* Pure helpers *)

\* str.upper(), character by character
UpperChar(ch) ==
  CASE ch = "a" -> "A"
    [] ch = "b" -> "B"
    [] OTHER -> ch

Upper(s) == [k \in 1..Len(s) |-> UpperChar(s[k])]

RECURSIVE LStrip(_)
LStrip(s) == IF s # <<>> /\ Head(s) = " " THEN LStrip(Tail(s)) ELSE s

RECURSIVE RStrip(_)
RStrip(s) ==
  IF s # <<>> /\ s[Len(s)] = " " THEN RStrip(SubSeq(s, 1, Len(s) - 1)) ELSE s

\* str.strip()
Strip(s) == RStrip(LStrip(s))

\* stock = stock.upper().strip()
Normalize(stock) == Strip(Upper(stock))

Stocks == { Normalize(s) : s \in RawStocks }

\* target_number = phone if phone.startswith('whatsapp:') else f"whatsapp:{phone}"
TargetNumber(phone) == IF phone.wa THEN phone ELSE [wa |-> TRUE, num |-> phone.num]

\* A body that leaves the verdict out
MessageNoImpact(phone, stock, impact, link) ==
  [to |-> TargetNumber(phone), stock |-> stock, impact |-> "na", link |-> link]

\* msg = f"... {stock} News ... {impact} ... {link}", with the number it goes to
Message(phone, stock, impact, link) ==
  [to |-> TargetNumber(phone), stock |-> stock, impact |-> impact, link |-> link]

RowIds == 1..MaxRowId

\* WHERE phone_number=? AND stock_symbol=?
Matching(table, phone_number, stock) ==
  { w \in table : w.phone_number = phone_number /\ w.stock_symbol = stock }

\* The rowid sqlite gives an inserted row of a table without AUTOINCREMENT
NewRowId(table) ==
  IF table = {} THEN 1
  ELSE 1 + CHOOSE m \in {w.rowid : w \in table} : \A w \in table : w.rowid <= m

\* SELECT ... FROM watchlist, a table scan: rows come in rowid order
RECURSIVE FetchAll(_)
FetchAll(table) ==
  IF table = {} THEN <<>>
  ELSE LET first == CHOOSE w \in table : \A v \in table : w.rowid <= v.rowid
       IN <<first>> \o FetchAll(table \ {first})

\* An INSERT OR REPLACE in the UPDATE's place: a rowid the table lacks gets a row
UpdateLinkUpsert(table, link, row_id) ==
  IF \E w \in table : w.rowid = row_id
    THEN { IF w.rowid = row_id THEN [w EXCEPT !.last_seen_link = link] ELSE w : w \in table }
    ELSE table \cup { [rowid |-> row_id, phone_number |-> [wa |-> TRUE, num |-> "n1"],
                        stock_symbol |-> <<"A">>, last_seen_link |-> link] }

\* UPDATE watchlist SET last_seen_link=? WHERE rowid=?
UpdateLink(table, link, row_id) ==
  { IF w.rowid = row_id THEN [w EXCEPT !.last_seen_link = link] ELSE w : w \in table }

\* The comparison lost: every fetched item counts as new
IsNewAlways(link, last_link) == TRUE

\* if link != last_link
IsNew(link, last_link) == link # last_link

\* What the tick's log says of a row before the row is looked at
NoAttempt == [feed |-> "unseen", annot |-> "na", notify |-> "na", write |-> "na"]
\* What is remembered of the tick before when it looked at no row
NoPrev == [rowid |-> 0, cursor |-> "na", feed |-> "unseen", notify |-> "na", write |-> "na"]

\* A completed tool call: the tool, its arguments after normalisation, what it
\* returned (kind and list stand for the text), and the table as the call's
\* last statement found it.
NoCall == [op |-> "none", phone_number |-> "na", stock |-> <<>>, kind |-> "none",
           list |-> <<>>, before |-> {}]
NoArg == [phone_number |-> "na", stock |-> <<>>]
NoReply == [status |-> 0, body |-> NoText]

----------------------------------------------------------------------------
(* State *)

VARIABLES
  watchlist,  \* the table: a set of rows [rowid, phone_number, stock_symbol, last_seen_link]
  pc,         \* where scraper_loop is: "sleep", "fetch", "annotate", "notify", "update", "dead"
  rows,       \* scraper_loop's rows: the tick's snapshot
  i,          \* position of the for loop in rows
  link,       \* the latest item's link, while a row is being handled
  impact,     \* the label for it
  outbox,     \* messages Twilio accepted in the current tick, in order
  curr,       \* log of the current tick: rowid -> what the feed, the LLM, Twilio and the UPDATE did
  prev,       \* one row's entry of the log of the tick before, with the cursor it had
  audit,      \* which history is kept: "poll" (outbox, curr, prev), "calls" (lastCall,
              \* priorCall) or "none"; fixed from the start
  unsubbed,   \* pairs a remove call completed for since the running tick's snapshot
  orphaned,   \* whether Twilio accepted a message of this tick for a pair without a row
  rowcount,   \* rows the tick's last UPDATE matched, -1 before any
  rpc,        \* request -> "off", "idle", "agent", "insert", "done"
  sender,     \* request -> the From field
  ncalls,     \* tool calls the agent has started so far
  arg,        \* request -> arguments of the add call between its SELECT and INSERT
  reply,      \* request -> the HTTP response
  failed,     \* request -> whether agent_executor.ainvoke raised
  lastCall,   \* request -> the last tool call it completed and what the tool returned
  priorCall   \* request -> the tool call it completed before that one

scraperVars == <<pc, rows, i, link, impact, outbox, curr, prev, audit, unsubbed,
                 orphaned, rowcount>>
reqVars == <<rpc, sender, ncalls, arg, reply, failed, lastCall, priorCall>>
vars == <<watchlist, pc, rows, i, link, impact, outbox, curr, prev, audit, unsubbed,
          orphaned, rowcount,
          rpc, sender, ncalls, arg, reply, failed, lastCall, priorCall>>

\* What a stocks.db left by an earlier run can hold: CREATE TABLE IF NOT EXISTS
\* keeps it.  Rowids 1..n with any cursors; the rows alternate between two
\* subscriptions, so that three rows hold one pair twice.
PersistedPhone(k) == IF k % 2 = 1 THEN [wa |-> TRUE, num |-> "n1"] ELSE [wa |-> FALSE, num |-> "n2"]
PersistedStock(k) == IF k % 2 = 1 THEN <<"A">> ELSE <<"B">>

PersistedStores ==
  UNION { { { [rowid |-> k, phone_number |-> PersistedPhone(k),
               stock_symbol |-> PersistedStock(k), last_seen_link |-> f[k]] : k \in 1..n }
            : f \in [1..n -> Cursors] }
          : n \in 0..MaxInitRows }

ScraperInit(kept) ==
  /\ audit = kept
  /\ pc = "sleep"
  /\ rows = <<>>
  /\ i = 1
  /\ link = "na"
  /\ impact = "na"
  /\ outbox = <<>>
  /\ curr = [k \in RowIds |-> NoAttempt]
  /\ prev = NoPrev
  /\ unsubbed = {}
  /\ orphaned = FALSE
  /\ rowcount = -1

ReqInit(on) ==
  /\ rpc = [r \in Reqs |-> IF r \in on THEN "idle" ELSE "off"]
  /\ sender = [r \in Reqs |-> "na"]
  /\ ncalls = 0
  /\ arg = [r \in Reqs |-> NoArg]
  /\ reply = [r \in Reqs |-> NoReply]
  /\ failed = [r \in Reqs |-> FALSE]
  /\ lastCall = [r \in Reqs |-> NoCall]
  /\ priorCall = [r \in Reqs |-> NoCall]

----------------------------------------------------------------------------
(* scraper_loop *)

row == rows[i]

\* A step's entry in the tick log, when the log is kept
Logged(old, new) == IF audit = "poll" THEN new ELSE old

\* The for loop moves on: to the next row, or past the last one to
\* conn.close() and asyncio.sleep(600).
PcAt(k, n) == IF k > n THEN "sleep" ELSE "fetch"

\* The try around the whole for loop: an exception ends the tick
AfterErrorAbort(k) == Len(rows) + 1

\* except Exception: print, and the for loop takes the next row
AfterError(k) == k + 1

\* The send wrapped in its own try: the UPDATE runs whatever Twilio did
ReachesUpdateAlways(accepted) == TRUE

\* twilio_client.messages.create returned, or raised into the except branch
ReachesUpdate(accepted) == accepted

NextRow(k) ==
  /\ i' = k
  /\ pc' = PcAt(k, Len(rows))
  /\ link' = "na"
  /\ impact' = "na"
  /\ unsubbed' = IF PcAt(k, Len(rows)) = "sleep" THEN {} ELSE unsubbed

\* Lines 102-105 after the sleep: connect, SELECT, fetchall.  They stand outside
\* the try: when one raises, the exception leaves scraper_loop and the task ends.
\* The log keeps one row of the tick that ended, any of them.
Snapshot(ok) ==
  /\ pc = "sleep"
  /\ IF ok
       THEN /\ rows' = FetchAll(watchlist)
            /\ i' = 1
            /\ pc' = PcAt(1, Len(rows'))
            /\ prev' \in { NoPrev } \cup
                         { [rowid |-> rows[k].rowid, cursor |-> rows[k].last_seen_link,
                            feed |-> curr[rows[k].rowid].feed,
                            notify |-> curr[rows[k].rowid].notify,
                            write |-> curr[rows[k].rowid].write] : k \in 1..(IF audit = "poll" THEN Len(rows) ELSE 0) }
            /\ curr' = [k \in RowIds |-> NoAttempt]
            /\ outbox' = <<>>
            /\ orphaned' = FALSE
            /\ rowcount' = -1
       ELSE /\ pc' = "dead"
            /\ UNCHANGED <<rows, i, prev, curr, outbox, orphaned, rowcount>>
  /\ UNCHANGED <<link, impact, watchlist, audit, unsubbed>>
  /\ UNCHANGED reqVars

\* Lines 112-125: requests.get, parse, items[0], the comparison with last_link.
\* res: "fail" (get or parse raised, or the item has no link), "empty" (no
\* <item>), or the latest item's link.
Fetch(res) ==
  /\ pc = "fetch"
  /\ curr' = Logged(curr, [curr EXCEPT ![row.rowid].feed = res])
  /\ IF res = "fail"
       THEN NextRow(AfterError(i))
       ELSE IF res # "empty" /\ IsNew(res, row.last_seen_link)
              THEN /\ link' = res
                   /\ pc' = "annotate"
                   /\ UNCHANGED <<i, impact, unsubbed>>
              ELSE NextRow(i + 1)
  /\ UNCHANGED <<rows, outbox, prev, watchlist, audit, orphaned, rowcount>>
  /\ UNCHANGED reqVars

\* An analyze_news_impact without the except branch's constant
AnalyzeNewsImpactNoFallback(res) == res

\* analyze_news_impact: the LLM's text, or the except branch's constant
AnalyzeNewsImpact(res) == IF res = "fail" THEN FallbackLabel ELSE res

\* Line 126, the await of analyze_news_impact
Annotate(res) ==
  /\ pc = "annotate"
  /\ impact' = AnalyzeNewsImpact(res)
  /\ curr' = Logged(curr, [curr EXCEPT ![row.rowid].annot = res])
  /\ pc' = "notify"
  /\ UNCHANGED <<rows, i, link, outbox, prev, watchlist, audit, unsubbed, orphaned, rowcount>>
  /\ UNCHANGED reqVars

\* Lines 128-138: compose and twilio_client.messages.create
Notify(accepted) ==
  /\ pc = "notify"
  /\ curr' = Logged(curr, [curr EXCEPT ![row.rowid].notify = IF accepted THEN "ok" ELSE "fail"])
  /\ outbox' = IF accepted
                 THEN Logged(outbox, Append(outbox, Message(row.phone_number, row.stock_symbol, impact, link)))
                 ELSE outbox
  /\ IF ReachesUpdate(accepted)
       THEN /\ pc' = "update"
            /\ UNCHANGED <<i, link, impact, unsubbed>>
       ELSE NextRow(AfterError(i))
  /\ orphaned' = (orphaned \/ (accepted /\ Matching(watchlist, row.phone_number, row.stock_symbol) = {}))
  /\ UNCHANGED <<rows, prev, watchlist, audit, rowcount>>
  /\ UNCHANGED reqVars

\* Lines 140-141: UPDATE ... WHERE rowid=? and commit; ok = FALSE when it raises
Update(ok) ==
  /\ pc = "update"
  /\ curr' = Logged(curr, [curr EXCEPT ![row.rowid].write = IF ok THEN "ok" ELSE "fail"])
  /\ watchlist' = IF ok THEN UpdateLink(watchlist, link, row.rowid) ELSE watchlist
  /\ NextRow(IF ok THEN i + 1 ELSE AfterError(i))
  /\ rowcount' = IF ok THEN Cardinality({ w \in watchlist : w.rowid = row.rowid }) ELSE rowcount
  /\ UNCHANGED <<rows, outbox, prev, audit, orphaned>>
  /\ UNCHANGED reqVars

NextPoll ==
  \/ \E ok \in BOOLEAN : Snapshot(ok)
  \/ \E res \in {"fail", "empty"} \cup Links : Fetch(res)
  \/ \E res \in {"fail"} \cup Labels : Annotate(res)
  \/ \E accepted \in BOOLEAN : Notify(accepted)
  \/ \E ok \in BOOLEAN : Update(ok)

InitPoll ==
  /\ watchlist \in PersistedStores
  /\ ScraperInit("poll")
  /\ ReqInit({})

SpecPoll == InitPoll /\ [][NextPoll]_vars

\* The poller under the assumptions a progress statement makes of its
\* surroundings: the task keeps being scheduled (the while True of line 100 and
\* the sleep of line 146), and for every row the feed, Twilio and the UPDATE,
\* asked again and again, do not fail every time
PollFairness ==
  /\ WF_vars(NextPoll)
  /\ \A r \in RowIds :
       /\ SF_vars(\E res \in Links : Fetch(res) /\ rows[i].rowid = r)
       /\ SF_vars(Notify(TRUE) /\ rows[i].rowid = r)
       /\ SF_vars(Update(TRUE) /\ rows[i].rowid = r)

SpecPollFair == InitPoll /\ [][NextPoll]_vars /\ PollFairness

----------------------------------------------------------------------------
(* reply_whatsapp and the agent's tools *)

\* The existence check lost: the INSERT always runs
ExistsNever(found) == FALSE

\* if c.fetchone():
Exists(found) == found # {}

\* What add_stock_to_watchlist returns: line 45 or line 51
AddResult(exists) == IF exists THEN "AlreadyExists" ELSE "Added"

\* What remove_stock_from_watchlist returns: line 62, whatever DELETE matched
RemoveResult(matched) == "Stopped"

\* What view_watchlist returns: line 72 or line 73
ViewResult(found) == IF found = <<>> THEN "NotTracking" ELSE "Tracking"

\* [r[0] for r in rows] of SELECT stock_symbol ... WHERE phone_number=?
RECURSIVE StocksOf(_, _)
StocksOf(fetched, phone_number) ==
  IF fetched = <<>> THEN <<>>
  ELSE (IF Head(fetched).phone_number = phone_number
          THEN <<Head(fetched).stock_symbol>> ELSE <<>>)
       \o StocksOf(Tail(fetched), phone_number)

\* DELETE FROM watchlist WHERE stock_symbol=?: the subscriber left out
DeleteFromAnyone(table, phone_number, stock) ==
  { w \in table : w.stock_symbol # stock }

\* DELETE FROM watchlist WHERE phone_number=? AND stock_symbol=?
DeleteFrom(table, phone_number, stock) == table \ Matching(table, phone_number, stock)

\* No except branch: a raising agent leaves no text to send
AiResponseUncaught(raised, content) == IF raised THEN NoText ELSE content

\* ai_response: the agent's last message, or the except branch's constant
AiResponse(raised, content) == IF raised THEN Fallback ELSE content

\* Response(content=str(resp), media_type="application/xml")
Envelope(text) == [status |-> 200, body |-> text]

Completed(r, call) ==
  IF audit = "calls"
    THEN /\ lastCall' = [lastCall EXCEPT ![r] = call]
         /\ priorCall' = [priorCall EXCEPT ![r] = lastCall[r]]
    ELSE UNCHANGED <<lastCall, priorCall>>

\* The agent starts one more tool call
Calls(r) ==
  /\ rpc[r] = "agent"
  /\ ncalls < MaxCalls
  /\ ncalls' = ncalls + 1

\* Lines 157-164: the form is read and the agent is started on
\* "User Phone: {sender} / User Request: {incoming_msg}"
Receive(r, from) ==
  /\ rpc[r] = "idle"
  /\ rpc' = [rpc EXCEPT ![r] = "agent"]
  /\ sender' = [sender EXCEPT ![r] = from]
  /\ UNCHANGED <<ncalls, arg, reply, failed, lastCall, priorCall, watchlist>>
  /\ UNCHANGED scraperVars

\* add_stock_to_watchlist, lines 38-45: normalise, SELECT, and return when a row
\* came back.  stock and phone_number are the arguments the agent chose.
AddCheck(r, stock, phone_number) ==
  LET sym == Normalize(stock)
      found == Matching(watchlist, phone_number, sym)
  IN /\ Calls(r)
     /\ IF Exists(found)
          THEN /\ Completed(r, [op |-> "add", phone_number |-> phone_number, stock |-> sym,
                                kind |-> AddResult(TRUE), list |-> <<>>, before |-> watchlist])
               /\ UNCHANGED <<rpc, arg>>
          ELSE /\ rpc' = [rpc EXCEPT ![r] = "insert"]
               /\ arg' = [arg EXCEPT ![r] = [phone_number |-> phone_number, stock |-> sym]]
               /\ UNCHANGED <<lastCall, priorCall>>
     /\ UNCHANGED <<sender, reply, failed, watchlist>>
     /\ UNCHANGED scraperVars

\* add_stock_to_watchlist, lines 47-51: INSERT with last_seen_link "none", commit
AddInsert(r) ==
  /\ rpc[r] = "insert"
  /\ NewRowId(watchlist) <= MaxRowId
  /\ watchlist' = watchlist \cup
       { [rowid |-> NewRowId(watchlist), phone_number |-> arg[r].phone_number,
          stock_symbol |-> arg[r].stock, last_seen_link |-> NoLink] }
  /\ Completed(r, [op |-> "add", phone_number |-> arg[r].phone_number, stock |-> arg[r].stock,
                   kind |-> AddResult(FALSE), list |-> <<>>, before |-> watchlist])
  /\ rpc' = [rpc EXCEPT ![r] = "agent"]
  /\ arg' = [arg EXCEPT ![r] = NoArg]
  /\ UNCHANGED <<sender, ncalls, reply, failed>>
  /\ UNCHANGED scraperVars

\* remove_stock_from_watchlist, lines 56-62
Remove(r, stock, phone_number) ==
  LET sym == Normalize(stock)
      found == Matching(watchlist, phone_number, sym)
  IN /\ Calls(r)
     /\ watchlist' = DeleteFrom(watchlist, phone_number, sym)
     /\ Completed(r, [op |-> "remove", phone_number |-> phone_number, stock |-> sym,
                      kind |-> RemoveResult(found # {}), list |-> <<>>, before |-> watchlist])
     /\ unsubbed' = IF pc \in {"sleep", "dead"}
                      THEN unsubbed
                      ELSE unsubbed \cup {[phone_number |-> phone_number, stock |-> sym]}
     /\ UNCHANGED <<rpc, sender, arg, reply, failed>>
     /\ UNCHANGED <<pc, rows, i, link, impact, outbox, curr, prev, audit, orphaned, rowcount>>

\* view_watchlist, lines 67-73
View(r, phone_number) ==
  LET found == StocksOf(FetchAll(watchlist), phone_number)
  IN /\ Calls(r)
     /\ Completed(r, [op |-> "view", phone_number |-> phone_number, stock |-> <<>>,
                      kind |-> ViewResult(found), list |-> found, before |-> watchlist])
     /\ UNCHANGED <<rpc, sender, arg, reply, failed, watchlist>>
     /\ UNCHANGED scraperVars

\* Lines 166-176: ainvoke returned the agent's last message (raised = FALSE) or
\* raised; either way the text goes into a MessagingResponse and is returned.
Respond(r, raised, content) ==
  /\ rpc[r] = "agent"
  /\ rpc' = [rpc EXCEPT ![r] = "done"]
  /\ failed' = [failed EXCEPT ![r] = raised]
  /\ reply' = [reply EXCEPT ![r] = Envelope(AiResponse(raised, content))]
  /\ UNCHANGED <<sender, ncalls, arg, lastCall, priorCall, watchlist>>
  /\ UNCHANGED scraperVars

NextCmd ==
  \/ \E r \in Reqs, from \in Phones : Receive(r, from)
  \/ \E r \in Reqs, stock \in RawStocks, phone_number \in Phones : AddCheck(r, stock, phone_number)
  \/ \E r \in Reqs : AddInsert(r)
  \/ \E r \in Reqs, stock \in RawStocks, phone_number \in Phones : Remove(r, stock, phone_number)
  \/ \E r \in Reqs, phone_number \in Phones : View(r, phone_number)
  \/ \E r \in Reqs, raised \in BOOLEAN, content \in AiTexts : Respond(r, raised, content)

\* One handler at a time, on whatever an earlier run left in stocks.db
InitSeq ==
  /\ watchlist \in PersistedStores
  /\ ScraperInit("calls")
  /\ ReqInit({"r1"})

SpecSeq == InitSeq /\ [][NextCmd]_vars

\* Two handlers in flight together
InitCmd ==
  /\ watchlist = {}
  /\ ScraperInit("calls")
  /\ ReqInit(Reqs)

SpecCmd == InitCmd /\ [][NextCmd]_vars

\* The whole process: the poller and a handler
Next == NextPoll \/ NextCmd

Init ==
  /\ watchlist \in PersistedStores
  /\ ScraperInit("none")
  /\ ReqInit({"r1"})

Spec == Init /\ [][Next]_vars

----------------------------------------------------------------------------
(* What the claims about the poller read *)

\* The cursor the table holds now for a rowid ("gone" when no row has it)
StoredCursor(row_id) ==
  IF \E w \in watchlist : w.rowid = row_id
    THEN (CHOOSE w \in watchlist : w.rowid = row_id).last_seen_link
    ELSE "gone"

\* A tick has run to its sleep
TickDone == pc = "sleep" /\ rows # <<>>

\* Nothing failed for the row in that tick's log entry
NoFailure(entry) == entry.feed # "fail" /\ entry.notify # "fail" /\ entry.write # "fail"

Notifications(entry) == IF entry.notify = "ok" THEN 1 ELSE 0

\* Messages of this tick's outbox that are the alert of snapshot row r for item l
AlertsFor(r, l) ==
  { n \in 1..Len(outbox) : /\ outbox[n].to = TargetNumber(r.phone_number)
                           /\ outbox[n].stock = r.stock_symbol
                           /\ outbox[n].link = l }

\* The row of the running tick that prev remembers from the tick before: the
\* same subscription seen in two consecutive ticks
SeenTwice(k) == k \in 1..Len(rows) /\ prev.rowid = rows[k].rowid

----------------------------------------------------------------------------
(* C1 *)

C1Case(k) ==
  /\ TickDone
  /\ SeenTwice(k)
  /\ prev.cursor = NoLink
  /\ prev.feed \in Links
  /\ curr[rows[k].rowid].feed = prev.feed
  /\ NoFailure(prev)
  /\ NoFailure(curr[rows[k].rowid])

\* C1: a subscription with cursor "none" whose feed returns the same item in two
\* consecutive ticks, nothing failing, is notified exactly once over the two
\* ticks; its cursor is the item's link after the first tick (what the second
\* tick's snapshot read) and still after the second.
C1_DedupIdempotence ==
  \A k \in 1..Len(rows) :
    C1Case(k) =>
      /\ Notifications(prev) + Notifications(curr[rows[k].rowid]) = 1
      /\ rows[k].last_seen_link = prev.feed
      /\ StoredCursor(rows[k].rowid) = prev.feed

C1_Witness == \E k \in 1..Len(rows) : C1Case(k) /\ prev.notify = "ok"

----------------------------------------------------------------------------
(* C2 *)

C2Case(k) ==
  /\ TickDone
  /\ SeenTwice(k)
  /\ prev.feed \in Links
  /\ prev.feed # prev.cursor
  /\ prev.notify = "fail"

\* C2: when the feed returned an item other than the cursor and Twilio refused
\* it, the cursor is unchanged after that tick, and a next tick whose feed
\* returns the item again sends it again: Twilio is called, and the alert is in
\* the outbox when Twilio accepts.
C2_NoAdvanceOnDeliveryFailure ==
  \A k \in 1..Len(rows) :
    C2Case(k) =>
      /\ prev.write = "na"
      /\ rows[k].last_seen_link = prev.cursor
      /\ curr[rows[k].rowid].feed = prev.feed =>
           /\ curr[rows[k].rowid].notify \in {"ok", "fail"}
           /\ curr[rows[k].rowid].notify = "ok" => AlertsFor(rows[k], prev.feed) # {}

C2_Witness ==
  \E k \in 1..Len(rows) :
    /\ C2Case(k)
    /\ curr[rows[k].rowid].feed = prev.feed
    /\ curr[rows[k].rowid].notify = "ok"

----------------------------------------------------------------------------
(* C3 *)

\* In the finished tick row b's feed returned a new item and nothing failed for b
C3Succeeds(b) ==
  /\ curr[rows[b].rowid].feed \in Links
  /\ curr[rows[b].rowid].feed # rows[b].last_seen_link
  /\ NoFailure(curr[rows[b].rowid])

\* C3: in a tick over two subscriptions, for two topics, where the feed of one
\* fails: the other is fetched all the same, in either order; and when its feed
\* returns a new item (nothing failing for it) the tick sends exactly one
\* message, the alert for it, its cursor becomes the item's link and the failed
\* one's cursor stays.
C3_IsolationUnderPartialFailure ==
  (TickDone /\ Len(rows) = 2) =>
    \A a, b \in 1..2 :
      (/\ a # b
       /\ rows[a].stock_symbol # rows[b].stock_symbol
       /\ curr[rows[a].rowid].feed = "fail") =>
        /\ curr[rows[b].rowid].feed # "unseen"
        /\ StoredCursor(rows[a].rowid) = rows[a].last_seen_link
        /\ C3Succeeds(b) =>
             /\ Len(outbox) = 1
             /\ AlertsFor(rows[b], curr[rows[b].rowid].feed) = {1}
             /\ StoredCursor(rows[b].rowid) = curr[rows[b].rowid].feed

C3_Witness ==
  /\ TickDone
  /\ Len(rows) = 2
  /\ rows[1].stock_symbol # rows[2].stock_symbol
  /\ curr[rows[1].rowid].feed = "fail"
  /\ C3Succeeds(2)

----------------------------------------------------------------------------
(* C4 *)

\* C4: no item is delivered twice to a subscriber who stays subscribed.  Stated
\* for two consecutive ticks: a row notified of a link in one tick is not
\* notified of the same link in the next.
C4_NeverDoubleNotifies ==
  \A k \in 1..Len(rows) :
    (SeenTwice(k) /\ prev.notify = "ok" /\ curr[rows[k].rowid].notify = "ok") =>
      curr[rows[k].rowid].feed # prev.feed

----------------------------------------------------------------------------
(* C10 *)

\* C10: the poll loop has no terminal state: whatever failed, scraper_loop is
\* never left.
C10_LoopNeverStops == pc # "dead"

----------------------------------------------------------------------------
(* C5 *)

\* The handler's last two tool calls were add with the same subscriber and ticker
C5Case(r) ==
  /\ priorCall[r].op = "add"
  /\ lastCall[r].op = "add"
  /\ lastCall[r].phone_number = priorCall[r].phone_number
  /\ lastCall[r].stock = priorCall[r].stock

\* C5: with one handler at work, add called twice in a row for the same pair:
\* the first call answers Added when the pair had no row, the second answers
\* AlreadyExists and leaves the table as it found it, cursors included, and a
\* pair that had no row before the first call has exactly one after the second.
C5_NoDoubleSubscribe ==
  \A r \in Reqs :
    C5Case(r) =>
      LET p == priorCall[r]
          c == lastCall[r]
          absent == Matching(p.before, p.phone_number, p.stock) = {}
      IN /\ absent => p.kind = "Added"
         /\ c.kind = "AlreadyExists"
         /\ watchlist = c.before
         /\ absent => /\ Cardinality(Matching(watchlist, c.phone_number, c.stock)) = 1
                      /\ \A w \in Matching(watchlist, c.phone_number, c.stock) :
                           w.last_seen_link = NoLink

C5_Witness ==
  \E r \in Reqs :
    /\ C5Case(r)
    /\ priorCall[r].kind = "Added"
    /\ lastCall[r].kind = "AlreadyExists"

----------------------------------------------------------------------------
(* C6 *)

\* C6: at most one row per (phone_number, stock_symbol), also when handlers
\* that add the same pair run together.
C6_AtMostOneRowPerPair ==
  \A w, v \in watchlist :
    (w.phone_number = v.phone_number /\ w.stock_symbol = v.stock_symbol) => w = v

----------------------------------------------------------------------------
(* C7 *)

\* C7: remove of a pair without a row answers NotFound and leaves the table
\* alone; of a pair with a row it answers as line 62 does and the row is gone;
\* the two answers differ.
C7_RemovalCorrectness ==
  \A r \in Reqs :
    lastCall[r].op = "remove" =>
      LET c == lastCall[r]
          found == Matching(c.before, c.phone_number, c.stock)
      IN /\ found = {} => (c.kind # RemoveResult(TRUE) /\ watchlist = c.before)
         /\ found # {} => (c.kind = RemoveResult(TRUE)
                           /\ Matching(watchlist, c.phone_number, c.stock) = {})

----------------------------------------------------------------------------
(* C8 *)

\* Every handler that has returned carries a reply envelope, with the fallback
\* text when the agent raised and the agent's text otherwise
C8Replied ==
  \A r \in Reqs :
    rpc[r] = "done" =>
      /\ reply[r].status = 200
      /\ failed[r] => reply[r].body = Fallback
      /\ ~failed[r] => reply[r].body \in AiTexts

\* The step in which one handler's agent raises changes nothing of another
\* handler, of the poller or of the table
C8Isolated ==
  \A r \in Reqs :
    (failed'[r] /\ ~failed[r]) =>
      /\ \A q \in Reqs \ {r} : /\ rpc'[q] = rpc[q]
                               /\ reply'[q] = reply[q]
                               /\ failed'[q] = failed[q]
      /\ UNCHANGED <<pc, rows, i, watchlist>>

\* C8: every request is answered: when the resolver raises the handler returns
\* the fallback text in the normal envelope, and that failure touches no other
\* request's reply and not the poll loop.
C8_AlwaysReplies == [](C8Replied) /\ [][C8Isolated]_vars

C8_Witness ==
  \E r, q \in Reqs :
    /\ rpc[r] = "done" /\ failed[r] /\ reply[r] = Envelope(Fallback)
    /\ q # r /\ rpc[q] = "done" /\ ~failed[q] /\ reply[q].body \in AiTexts

----------------------------------------------------------------------------
(* C9 *)

\* C9: a request from subscriber S creates, deletes and lists only rows whose
\* phone_number is S, whatever the agent passes to the tools.
C9_OnlyOwnRows ==
  \A r \in Reqs :
    LET c == lastCall[r]
        touched == CASE c.op = "add" -> c.kind = "Added"
                     [] c.op = "remove" -> Matching(c.before, c.phone_number, c.stock) # {}
                     [] c.op = "view" -> c.list # <<>>
                     [] OTHER -> FALSE
    IN touched => c.phone_number = sender[r]

----------------------------------------------------------------------------
(* C11 *)

\* Snapshot rows up to k that Twilio accepted a message for in this tick: the
\* outbox is filled in snapshot order, so this is where row k's message stands
MsgIndex(k) == Cardinality({ j \in 1..k : curr[rows[j].rowid].notify = "ok" })

AlertOf(k) == outbox[MsgIndex(k)]

\* A finished tick in which row k had cursor "none", the feed returned an item,
\* the LLM returned a verdict, and neither Twilio nor the UPDATE failed
C11Case(k) ==
  /\ TickDone
  /\ rows[k].last_seen_link = NoLink
  /\ curr[rows[k].rowid].feed \in Links
  /\ curr[rows[k].rowid].annot \in Labels
  /\ NoFailure(curr[rows[k].rowid])

\* Exactly one message went out for row k, to the given address, with the
\* row's symbol, the LLM's verdict and the item's link, and the stored cursor
\* is the item's link
C11Sent(k, to) ==
  /\ curr[rows[k].rowid].notify = "ok"
  /\ Len(outbox) = MsgIndex(Len(rows))
  /\ AlertOf(k) = [to |-> to,
                   stock |-> rows[k].stock_symbol,
                   impact |-> curr[rows[k].rowid].annot,
                   link |-> curr[rows[k].rowid].feed]
  /\ StoredCursor(rows[k].rowid) = curr[rows[k].rowid].feed

\* C11 as stated: the one message is addressed to the stored phone_number
\* itself. Refuted by a row whose phone_number has no "whatsapp:" prefix.
C11_AddressedToStoredNumber ==
  \A k \in 1..Len(rows) : C11Case(k) => C11Sent(k, rows[k].phone_number)

\* C11: for a row with cursor "none" whose feed returns an item and whose
\* verdict the LLM returns, the tick sends exactly one message, addressed to the
\* row's number on the whatsapp channel (the stored phone_number when it has
\* the "whatsapp:" prefix, the prefix put before it when it has not), carrying
\* the symbol, the verdict and the link; afterwards the cursor is the link.
C11_EndToEnd ==
  \A k \in 1..Len(rows) :
    C11Case(k) => C11Sent(k, [wa |-> TRUE, num |-> rows[k].phone_number.num])

C11_Witness ==
  \E k \in 1..Len(rows) : C11Case(k) /\ ~rows[k].phone_number.wa /\ Len(outbox) = 2

----------------------------------------------------------------------------
(* C12 *)

\* Row k's pass through the loop body is complete: the feed was asked; a new
\* item went to the LLM and to Twilio; an accepted message went to the UPDATE
C12Attempted(k) ==
  LET e == curr[rows[k].rowid] IN
    /\ e.feed # "unseen"
    /\ (e.feed \in Links /\ e.feed # rows[k].last_seen_link) =>
         /\ e.annot # "na"
         /\ e.notify \in {"ok", "fail"}
    /\ e.notify = "ok" => e.write \in {"ok", "fail"}

\* C12: the loop walks the snapshot once, in order: every row before the
\* current one has had its complete pass whatever happened to the others (the
\* feed, Twilio or the UPDATE failing for one of them), no row after the current
\* one has been touched, and no row has more than one message in the outbox. At
\* the end of the tick every row of the snapshot has had its pass.
C12_EveryRowAttemptedOnce ==
  /\ \A k \in 1..Len(rows) :
       /\ k < i => C12Attempted(k)
       /\ k > i => curr[rows[k].rowid] = NoAttempt
  /\ Len(outbox) = MsgIndex(Len(rows))
  /\ TickDone => i = Len(rows) + 1

C12_Witness ==
  /\ TickDone
  /\ Len(rows) = 2
  /\ curr[rows[1].rowid].write = "fail"
  /\ curr[rows[2].rowid].annot = "fail"
  /\ curr[rows[2].rowid].notify = "ok"

----------------------------------------------------------------------------
(* C14 *)

\* C14: a cursor that a tick moved from X to another link is not X again after
\* the next tick. Refuted: the feed's latest item going l1, l2, l1 takes the
\* cursor from l1 to l2 and back to l1.
C14_CursorNeverReverts ==
  \A k \in 1..Len(rows) :
    (SeenTwice(k) /\ rows[k].last_seen_link # prev.cursor) =>
      StoredCursor(rows[k].rowid) # prev.cursor

----------------------------------------------------------------------------
(* C15 *)

\* The LLM call raised for row k's new item
C15Case(k) == curr[rows[k].rowid].annot = "fail"

\* C15: when analyze_news_impact's LLM call raises on a new item, the message
\* is still handed to Twilio, once; the message Twilio accepts carries the
\* fixed neutral verdict with the row's symbol and the link, and the cursor is
\* the link once the UPDATE has run without raising.
C15_AnnotationFallback ==
  \A k \in 1..Len(rows) :
    (C15Case(k) /\ (k < i \/ TickDone)) =>
      LET e == curr[rows[k].rowid] IN
        /\ e.notify \in {"ok", "fail"}
        /\ Len(outbox) = MsgIndex(Len(rows))
        /\ e.notify = "ok" =>
             /\ AlertOf(k).impact = FallbackLabel
             /\ AlertOf(k).stock = rows[k].stock_symbol
             /\ AlertOf(k).link = e.feed
             /\ e.write = "ok" => StoredCursor(rows[k].rowid) = e.feed

C15_Witness ==
  \E k \in 1..Len(rows) :
    /\ C15Case(k)
    /\ TickDone
    /\ curr[rows[k].rowid].write = "ok"
    /\ rows[k].last_seen_link # NoLink

----------------------------------------------------------------------------
(* C17 *)

\* The feed returned no item for row k, or the item the cursor already names
C17Case(k) ==
  \/ curr[rows[k].rowid].feed = "empty"
  \/ curr[rows[k].rowid].feed = rows[k].last_seen_link

\* C17: when the feed returns no item, or an item whose link equals the
\* cursor, the LLM and Twilio are not called for the row, no message of the
\* outbox is the row's, no UPDATE runs and the stored row is the snapshot's.
C17_SkipLeavesRowAlone ==
  \A k \in 1..Len(rows) :
    C17Case(k) =>
      /\ curr[rows[k].rowid].annot = "na"
      /\ curr[rows[k].rowid].notify = "na"
      /\ curr[rows[k].rowid].write = "na"
      /\ Len(outbox) = MsgIndex(Len(rows))
      /\ rows[k] \in watchlist

C17_Witness ==
  \E k \in 1..Len(rows) :
    /\ TickDone
    /\ curr[rows[k].rowid].feed = rows[k].last_seen_link
    /\ \E j \in 1..Len(rows) : curr[rows[j].rowid].feed = "empty"

----------------------------------------------------------------------------
(* C16 *)

\* From some point on row r is stored and every answer of the feed for it is
\* the item l, when the feed answers at all
C16FeedKeepsReturning(r, l) ==
  <>[](StoredCursor(r) # "gone" /\ curr[r].feed \in {"unseen", "fail", l})

\* C16: under PollFairness, a row that stays stored and whose feed keeps
\* returning the item l has l as its cursor at some point (line 140 writes it
\* only after Twilio accepted the message for l). Refuted: once the connect or
\* the SELECT of lines 102-105 raises, the task is over and no row is looked at
\* again.
C16_EventuallyNotified ==
  \A r \in RowIds : \A l \in Links :
    C16FeedKeepsReturning(r, l) => <>(StoredCursor(r) = l)

----------------------------------------------------------------------------
(* C13 *)

\* The step changes the cursor of a stored row that stays the same subscription
CursorChanged(w, v) ==
  /\ v.rowid = w.rowid
  /\ v.phone_number = w.phone_number
  /\ v.stock_symbol = w.stock_symbol
  /\ v.last_seen_link # w.last_seen_link

\* C13: a stored row's cursor changes only in the poller's UPDATE step, which
\* follows the message Twilio accepted for the snapshot row in hand; the row
\* changed is that row's subscription and the new cursor is the link of that
\* message. Refuted: sqlite gives the rowid of a deleted last row to the next
\* INSERT, and the UPDATE names the row by rowid only.
C13_CursorFollowsNotification ==
  [][ \A w \in watchlist : \A v \in watchlist' :
        CursorChanged(w, v) =>
          /\ pc = "update"
          /\ v.last_seen_link = link
          /\ rows[i].phone_number = w.phone_number
          /\ rows[i].stock_symbol = w.stock_symbol ]_vars

----------------------------------------------------------------------------
(* C18 *)

\* The table holds a row for the pair of the snapshot row in hand
C18Subscribed == Matching(watchlist, rows[i].phone_number, rows[i].stock_symbol) # {}

\* C18 as stated: Twilio never accepts a message of the poller for a pair that
\* has no row. Refuted by a tick whose snapshot was read before the remove call.
C18_NoAlertAfterUnsubscribe == ~orphaned

\* C18: when Twilio accepts a message of the poller for a pair that has no row
\* at that moment, a remove call for that very pair has completed since the
\* tick's snapshot: a tick whose snapshot is read after the remove call sends
\* nothing for the pair until it is added again.
C18_OnlyStaleTickAlerts ==
  [][ (pc = "notify" /\ pc' = "update") =>
        \/ C18Subscribed
        \/ [phone_number |-> rows[i].phone_number, stock |-> rows[i].stock_symbol] \in unsubbed ]_vars

C18_Witness ==
  /\ orphaned
  /\ pc = "update"
  /\ ~C18Subscribed
  /\ [phone_number |-> rows[i].phone_number, stock |-> rows[i].stock_symbol] \in unsubbed

----------------------------------------------------------------------------
(* C19 *)

\* Which subscriptions the table holds, whatever their cursors
Keys(table) == { <<w.rowid, w.phone_number, w.stock_symbol>> : w \in table }

\* C19: a step of the poller leaves the stored subscriptions as they are: it
\* neither inserts nor deletes a row, so the pairs change in the tools' steps
\* only; an UPDATE for a rowid whose row was deleted after the snapshot matches
\* nothing and brings no row back.
C19_PollerKeepsRows ==
  [][ UNCHANGED reqVars => Keys(watchlist') = Keys(watchlist) ]_vars

C19_Witness ==
  /\ rowcount = 0
  /\ \E k \in 1..Len(rows) :
       /\ StoredCursor(rows[k].rowid) = "gone"
       /\ Matching(watchlist, rows[k].phone_number, rows[k].stock_symbol) = {}

====
